---------------------------- MODULE Spec2Model ----------------------------
(***************************************************************************)
(* A model of the js-examples repository:                                  *)
(*   - echoTag, the tagged-template function of test("strings"), executed  *)
(*     statement by statement in one or two call frames;                   *)
(*   - the Set operations exercised by test("sets");                       *)
(*   - Hello.render of src/components/hello.tsx.                           *)
(* JavaScript strings are TLA+ strings (\o is +, Len is .length); the      *)
(* other JavaScript values are records tagged with their type.  Arrays are *)
(* sequences, so the JavaScript index i is the TLA+ index i + 1.           *)
(***************************************************************************)
EXTENDS Integers, Sequences, FiniteSets

VARIABLES pc, literals, substitutions, result, i, args,
          setData, lastOp,
          props, rendered

tagVars   == <<pc, literals, substitutions, result, i, args>>
setVars   == <<setData, lastOp>>
helloVars == <<props, rendered>>
vars      == <<pc, literals, substitutions, result, i, args,
               setData, lastOp, props, rendered>>

---------------------------------------------------------------------------
(* JavaScript values *)

Num(n) == [type |-> "number", n |-> n]
Str(s) == [type |-> "string", s |-> s]
Undefined == [type |-> "undefined"]

Digit(d) ==
    CASE d = 0 -> "0" [] d = 1 -> "1" [] d = 2 -> "2" [] d = 3 -> "3"
      [] d = 4 -> "4" [] d = 5 -> "5" [] d = 6 -> "6" [] d = 7 -> "7"
      [] d = 8 -> "8" [] d = 9 -> "9"

RECURSIVE NumberToString(_)
\* Number::toString of a non-negative integer: its decimal digits.
NumberToString(n) ==
    IF n < 10 THEN Digit(n)
    ELSE NumberToString(n \div 10) \o Digit(n % 10)

\* ToString, as applied by `result += value`.
ToString(v) ==
    CASE v.type = "string"    -> v.s
      [] v.type = "number"    -> NumberToString(v.n)
      [] v.type = "undefined" -> "undefined"

\* arr[j] for a JavaScript index j: undefined outside 0 .. arr.length - 1.
Index(arr, j) ==
    IF j + 1 \in DOMAIN arr THEN arr[j + 1] ELSE Undefined

---------------------------------------------------------------------------
(* Inputs *)

MaxLits == 3
MaxSubs == 2
MaxConcLits == 2
MaxConcSubs == 1

SeqsUpTo(S, n) == UNION {[1..k -> S] : k \in 0..n}

\* The literal strings and substitution values of the calls; they include
\* those of the call in test("strings").
Frags     == {"", " items cost $", "."}
SubValues == {Num(10), Str("2.50")}
ConcFrags     == {"a", "b."}
ConcSubValues == {Num(10), Str("X")}

StrArray(fs) == [k \in DOMAIN fs |-> Str(fs[k])]

LiteralArrays     == {StrArray(fs) : fs \in SeqsUpTo(Frags, MaxLits)}
SubArrays         == SeqsUpTo(SubValues, MaxSubs)
ConcLiteralArrays == {StrArray(fs) : fs \in SeqsUpTo(ConcFrags, MaxConcLits)}
ConcSubArrays     == SeqsUpTo(ConcSubValues, MaxConcSubs)

Frames == {1, 2}
NoArgs == [literals |-> <<>>, substitutions |-> <<>>]

---------------------------------------------------------------------------
(* echoTag *)

\* Mutant: `result` hoisted out of the function, one binding for every call.
SharedAccumulator(p) == 1

\* `let result` is a binding of the invocation: frame p's accumulator.
Accumulator(p) == p

\* Mutant: the accumulator is not emptied on entry.
CallKeepsResult(p, lits, subs) ==
    /\ pc[p] \in {"idle", "done"}
    /\ literals' = [literals EXCEPT ![p] = lits]
    /\ substitutions' = [substitutions EXCEPT ![p] = subs]
    /\ args' = [args EXCEPT ![p] = [literals |-> lits, substitutions |-> subs]]
    /\ i' = [i EXCEPT ![p] = 0]
    /\ pc' = [pc EXCEPT ![p] = "loop"]
    /\ UNCHANGED <<result, setVars, helloVars>>

\* function echoTag(literals, ...substitutions) { let result = ""; let i = 0
Call(p, lits, subs) ==
    /\ pc[p] \in {"idle", "done"}
    /\ literals' = [literals EXCEPT ![p] = lits]
    /\ substitutions' = [substitutions EXCEPT ![p] = subs]
    /\ args' = [args EXCEPT ![p] = [literals |-> lits, substitutions |-> subs]]
    /\ result' = [result EXCEPT ![Accumulator(p)] = ""]
    /\ i' = [i EXCEPT ![p] = 0]
    /\ pc' = [pc EXCEPT ![p] = "loop"]
    /\ UNCHANGED <<setVars, helloVars>>

\* Mutant: i <= substitutions.length
LoopCondInclusive(p) == i[p] <= Len(substitutions[p])

\* Mutant: i < literals.length - 1
LoopCondLiterals(p) == i[p] < Len(literals[p]) - 1

\* Mutant: i < substitutions.length && i < literals.length - 1
LoopCondBounded(p) ==
    i[p] < Len(substitutions[p]) /\ i[p] < Len(literals[p]) - 1

\* i < substitutions.length
LoopCond(p) == i[p] < Len(substitutions[p])

\* Mutant: result += literals.shift();
AppendLiteralShift(p) ==
    /\ pc[p] = "loop"
    /\ i[p] < Len(substitutions[p])
    /\ result' = [result EXCEPT ![p] = @ \o ToString(Index(literals[p], 0))]
    /\ literals' = [literals EXCEPT ![p] =
                       IF @ = <<>> THEN @ ELSE Tail(@)]
    /\ pc' = [pc EXCEPT ![p] = "sub"]
    /\ UNCHANGED <<substitutions, i, args, setVars, helloVars>>

\* result += literals[i];
AppendLiteral(p) ==
    /\ pc[p] = "loop"
    /\ LoopCond(p)
    /\ result' = [result EXCEPT ![Accumulator(p)] =
                     @ \o ToString(Index(literals[p], i[p]))]
    /\ pc' = [pc EXCEPT ![p] = "sub"]
    /\ UNCHANGED <<literals, substitutions, i, args, setVars, helloVars>>

\* Mutant: the substitution is not appended.
AppendSubstitutionSkipped(p) ==
    /\ pc[p] = "sub"
    /\ i' = [i EXCEPT ![p] = @ + 1]
    /\ pc' = [pc EXCEPT ![p] = "loop"]
    /\ UNCHANGED <<result, literals, substitutions, args, setVars, helloVars>>

\* result += substitutions[i]; i++
AppendSubstitution(p) ==
    /\ pc[p] = "sub"
    /\ result' = [result EXCEPT ![Accumulator(p)] =
                     @ \o ToString(Index(substitutions[p], i[p]))]
    /\ i' = [i EXCEPT ![p] = @ + 1]
    /\ pc' = [pc EXCEPT ![p] = "loop"]
    /\ UNCHANGED <<literals, substitutions, args, setVars, helloVars>>

\* Mutant: the last literal is not appended.
AppendLastOmitted(p) ==
    /\ pc[p] = "loop"
    /\ ~(i[p] < Len(substitutions[p]))
    /\ pc' = [pc EXCEPT ![p] = "done"]
    /\ UNCHANGED <<result, literals, substitutions, i, args, setVars, helloVars>>

\* result += literals[literals.length - 1]; return result
AppendLast(p) ==
    /\ pc[p] = "loop"
    /\ ~LoopCond(p)
    /\ result' = [result EXCEPT ![Accumulator(p)] =
                     @ \o ToString(Index(literals[p], Len(literals[p]) - 1))]
    /\ pc' = [pc EXCEPT ![p] = "done"]
    /\ UNCHANGED <<literals, substitutions, i, args, setVars, helloVars>>

\* The value the caller of frame p receives.
Returned(p) == result[Accumulator(p)]

RECURSIVE EchoTagFrom(_, _, _, _)
\* echoTag run on its own, from loop index j with accumulator acc.
EchoTagFrom(lits, subs, j, acc) ==
    IF j < Len(subs)
    THEN EchoTagFrom(lits, subs, j + 1,
                     (acc \o ToString(Index(lits, j))) \o ToString(Index(subs, j)))
    ELSE acc \o ToString(Index(lits, Len(lits) - 1))

EchoTag(lits, subs) == EchoTagFrom(lits, subs, 0, "")

---------------------------------------------------------------------------
(* Set: the operations test("sets") exercises.  setData is the set's list  *)
(* of entries, in insertion order. *)

SetValues == {Num(1), Str("1"), Num(2), Str("2"), Str("test")}

\* Mutant: entries compared with ==, which converts between the types.
LooseEquals(x, y) == ToString(x) = ToString(y)

\* The comparison of Set entries: same type and same value.
SameValueZero(x, y) == x.type = y.type /\ x = y

\* set.has(v)
SetHas(v) == \E k \in DOMAIN setData : SameValueZero(setData[k], v)

\* set.size
SetSize == Len(setData)

RECURSIVE Without(_, _)
\* The entries of list s, in order, without those that are v.
Without(s, v) ==
    IF s = <<>> THEN <<>>
    ELSE IF SameValueZero(Head(s), v) THEN Without(Tail(s), v)
    ELSE <<Head(s)>> \o Without(Tail(s), v)

\* set.add(v)
SetAdd(v) ==
    /\ setData' = IF SetHas(v) THEN setData ELSE Append(setData, v)
    /\ lastOp' = [op |-> "add", value |-> v]
    /\ UNCHANGED <<tagVars, helloVars>>

\* set.delete(v)
SetDelete(v) ==
    /\ setData' = Without(setData, v)
    /\ lastOp' = [op |-> "delete", value |-> v]
    /\ UNCHANGED <<tagVars, helloVars>>

\* set.clear()
SetClear ==
    /\ setData' = <<>>
    /\ lastOp' = [op |-> "clear", value |-> Undefined]
    /\ UNCHANGED <<tagVars, helloVars>>

---------------------------------------------------------------------------
(* Hello *)

Compilers  == {"TypeScript", "Babel", "tsc", "swc", "esbuild", "Flow", "", "a"}
Frameworks == {"React", "Preact", "Vue", "Angular", "Svelte", "Solid", "", "a"}

\* The bindings in scope in render(), besides `this`: the import and the
\* class of the module.
ModuleScope == [React |-> "namespace", Hello |-> "class"]

\* The evaluation of identifier `name`.
Lookup(name) ==
    IF name \in DOMAIN ModuleScope
    THEN [kind |-> "value", value |-> ModuleScope[name]]
    ELSE [kind |-> "throw", error |-> "ReferenceError"]

\* new Hello({compiler, framework}): this.props is the props given.
Mount(c, f) ==
    /\ props' = [compiler |-> c, framework |-> f]
    /\ rendered' = [kind |-> "none"]
    /\ UNCHANGED <<tagVars, setVars>>

\* render() { return <h1>Hello from {props.compiler} and {props.framework}!</h1>; }
Render ==
    /\ rendered.kind = "none"
    /\ LET p == Lookup("props") IN
         rendered' =
            IF p.kind = "throw" THEN p
            ELSE [kind |-> "element", tag |-> "h1",
                  text |-> "Hello from " \o p.value.compiler \o " and "
                              \o p.value.framework \o "!"]
    /\ UNCHANGED <<props, tagVars, setVars>>

---------------------------------------------------------------------------
(* Specifications *)

Init ==
    /\ pc = [p \in Frames |-> "idle"]
    /\ literals = [p \in Frames |-> <<>>]
    /\ substitutions = [p \in Frames |-> <<>>]
    /\ result = [p \in Frames |-> ""]
    /\ i = [p \in Frames |-> 0]
    /\ args = [p \in Frames |-> NoArgs]
    /\ setData = <<>>
    /\ lastOp = [op |-> "new", value |-> Undefined]
    /\ props = [compiler |-> "", framework |-> ""]
    /\ rendered = [kind |-> "none"]

\* One call at a time, on frame 1.
Next ==
    \/ \E lits \in LiteralArrays, subs \in SubArrays : Call(1, lits, subs)
    \/ AppendLiteral(1)
    \/ AppendSubstitution(1)
    \/ AppendLast(1)

Spec == Init /\ [][Next]_vars

\* Two call sites, their invocations' steps interleaved.
NextConc ==
    \/ \E p \in Frames, lits \in ConcLiteralArrays, subs \in ConcSubArrays :
          Call(p, lits, subs)
    \/ \E p \in Frames : AppendLiteral(p)
    \/ \E p \in Frames : AppendSubstitution(p)
    \/ \E p \in Frames : AppendLast(p)

SpecConc == Init /\ [][NextConc]_vars

NextSet ==
    \/ \E v \in SetValues : SetAdd(v)
    \/ \E v \in SetValues : SetDelete(v)
    \/ SetClear

SpecSet == Init /\ [][NextSet]_vars

NextHello ==
    \/ \E c \in Compilers, f \in Frameworks : Mount(c, f)
    \/ Render

SpecHello == Init /\ [][NextHello]_vars

---------------------------------------------------------------------------
(* Properties of echoTag *)

Lits(p) == args[p].literals
Subs(p) == args[p].substitutions

\* The call has the shape a tagged template gives it.
ValidCall(p)  == Len(Lits(p)) = Len(Subs(p)) + 1
Mismatched(p) == Len(Lits(p)) # Len(Subs(p)) + 1

RECURSIVE Interleave(_, _)
\* f[0] + str(s[0]) + f[1] + ... + str(s[N-2]) + f[N-1], for Len(f) = Len(s) + 1.
Interleave(f, s) ==
    IF Len(f) = 1 THEN f[1].s
    ELSE (f[1].s \o ToString(s[1])) \o Interleave(Tail(f), Tail(s))

ExampleLiterals      == <<Str(""), Str(" items cost $"), Str(".")>>
ExampleSubstitutions == <<Num(10), Str("2.50")>>

\* C1: a call with N >= 1 fragments and N - 1 substitutions returns the
\* fragments and the substitutions' texts interleaved in source order, each
\* once and untransformed; the call of test("strings") returns
\* "10 items cost $2.50.".
C1_Interleaving ==
    \A p \in Frames :
        (pc[p] = "done" /\ ValidCall(p)) =>
            /\ Returned(p) = Interleave(Lits(p), Subs(p))
            /\ (Lits(p) = ExampleLiterals /\ Subs(p) = ExampleSubstitutions)
                  => Returned(p) = "10 items cost $2.50."

C1_Witness ==
    /\ pc[1] = "done"
    /\ Lits(1) = ExampleLiterals
    /\ Subs(1) = ExampleSubstitutions
    /\ Returned(1) = "10 items cost $2.50."

\* C2, as stated: a call whose lengths mismatch fails with LengthMismatch
\* and returns no string.
C2_LengthMismatch ==
    \A p \in Frames : Mismatched(p) => pc[p] # "done"

\* The text of literals[j]: "undefined" where the array has no index j.
TextAt(f, j) == IF j \in 0 .. Len(f) - 1 THEN f[j + 1].s ELSE "undefined"

RECURSIVE PairsText(_, _, _)
\* text(f[0]) + str(s[0]) + ... + text(f[k-1]) + str(s[k-1])
PairsText(f, s, k) ==
    IF k = 0 THEN ""
    ELSE (PairsText(f, s, k - 1) \o TextAt(f, k - 1)) \o ToString(s[k])

\* C2, amended: a call whose lengths mismatch raises nothing: it runs one
\* loop iteration per substitution and returns a string, the pairs
\* literals[j] + str(substitutions[j]) followed by the last literal, with the
\* text "undefined" for a literal the array does not hold.
C2_MismatchReturns ==
    \A p \in Frames :
        /\ pc[p] \in {"idle", "loop", "sub", "done"}
        /\ (pc[p] = "done" /\ Mismatched(p)) =>
              /\ i[p] = Len(Subs(p))
              /\ Returned(p) =
                    PairsText(Lits(p), Subs(p), Len(Subs(p)))
                       \o TextAt(Lits(p), Len(Lits(p)) - 1)

\* Two fragments and two substitutions: a string comes back.
C2_Witness ==
    /\ pc[1] = "done"
    /\ Lits(1) = <<Str(" items cost $"), Str(".")>>
    /\ Subs(1) = <<Num(10), Str("2.50")>>
    /\ Returned(1) = " items cost $10.2.50."

RECURSIVE SumFragmentLengths(_)
SumFragmentLengths(f) ==
    IF f = <<>> THEN 0 ELSE Len(Head(f).s) + SumFragmentLengths(Tail(f))

RECURSIVE SumTextLengths(_)
SumTextLengths(s) ==
    IF s = <<>> THEN 0 ELSE Len(ToString(Head(s))) + SumTextLengths(Tail(s))

\* C3: for a valid call, the length of the returned string is the sum of the
\* fragments' lengths plus the sum of the lengths of the substitutions' texts.
C3_Length ==
    \A p \in Frames :
        (pc[p] = "done" /\ ValidCall(p)) =>
            Len(Returned(p)) =
                SumFragmentLengths(Lits(p)) + SumTextLengths(Subs(p))

C3_Witness ==
    /\ pc[1] = "done"
    /\ Lits(1) = ExampleLiterals
    /\ Subs(1) = ExampleSubstitutions
    /\ Len(Returned(1)) = 20

\* C4: with one fragment and no substitution the loop body runs zero times
\* and the fragment is returned unchanged.
C4_SingleFragment ==
    \A p \in Frames :
        (pc[p] = "done" /\ Len(Lits(p)) = 1 /\ Len(Subs(p)) = 0) =>
            /\ Returned(p) = Lits(p)[1].s
            /\ i[p] = 0

C4_Witness ==
    /\ pc[1] = "done"
    /\ Lits(1) = <<Str(" items cost $")>>
    /\ Subs(1) = <<>>
    /\ Returned(1) = " items cost $"

\* C5: two invocations with identical fragments and substitutions return
\* identical strings, whatever invocations came before them.
C5_Deterministic ==
    \A p, q \in Frames :
        (pc[p] = "done" /\ pc[q] = "done" /\ args[p] = args[q]) =>
            Returned(p) = Returned(q)

C5_Witness ==
    /\ pc[1] = "done"
    /\ pc[2] = "done"
    /\ args[1] = args[2]
    /\ Lits(1) = <<Str("a"), Str("b.")>>
    /\ Subs(1) = <<Num(10)>>
    /\ Returned(2) = "a10b."

\* The arrays passed in are as they were passed.
InputsIntact ==
    \A p \in Frames :
        pc[p] # "idle" =>
            /\ literals[p] = Lits(p)
            /\ substitutions[p] = Subs(p)

\* A call starts from an empty accumulator, and a step of an invocation
\* writes nothing but its accumulator, its loop index and its position.
FrameOnly ==
    /\ \A p \in Frames :
          (pc[p] \in {"idle", "done"} /\ pc'[p] = "loop") => result'[p] = ""
    /\ \A p \in Frames :
          pc[p] \in {"loop", "sub"} =>
              /\ literals'[p] = literals[p]
              /\ substitutions'[p] = substitutions[p]
              /\ args'[p] = args[p]
    /\ UNCHANGED <<setVars, helloVars>>

\* C6: an invocation has no side effects: the fragment and substitution
\* sequences are unchanged when it returns, and nothing is retained between
\* calls, the accumulator being created fresh in each call.
C6_NoSideEffects == []InputsIntact /\ [][FrameOnly]_vars

C6_Witness ==
    /\ pc[1] = "done"
    /\ Lits(1) = ExampleLiterals
    /\ literals[1] = ExampleLiterals
    /\ substitutions[1] = ExampleSubstitutions
    /\ Returned(1) # ""

\* A step of one invocation leaves the other invocations' accumulators alone.
OwnAccumulator ==
    \A p, q \in Frames :
        (p # q /\ pc'[p] # pc[p]) => result'[q] = result[q]

AloneResult ==
    \A p \in Frames :
        pc[p] = "done" => Returned(p) = EchoTag(Lits(p), Subs(p))

\* C7: however the steps of concurrent invocations interleave, each returns
\* the string it returns when run alone, and no invocation's accumulator is
\* written by another.
C7_Interleaved == []AloneResult /\ [][OwnAccumulator]_vars

\* Both invocations are under way, each holding a partial result.
C7_Witness ==
    /\ pc[1] = "sub"
    /\ pc[2] = "sub"
    /\ args[1] # args[2]
    /\ result[1] = "a"
    /\ result[2] = "b."

RECURSIVE Pairs(_, _, _)
\* f[0] + str(s[0]) + ... + f[k-1] + str(s[k-1])
Pairs(f, s, k) ==
    IF k = 0 THEN ""
    ELSE (Pairs(f, s, k - 1) \o f[k].s) \o ToString(s[k])

\* C10: echoTag validates no length: with k substitutions, k less than the
\* number of literals, it stops after exactly k iterations and returns the k
\* pairs followed by the last literal, so the literals at k .. length - 2 are
\* left out.
C10_NoValidation ==
    \A p \in Frames :
        /\ i[p] <= Len(substitutions[p])
        /\ (pc[p] = "done" /\ Len(Lits(p)) >= 1 /\ Len(Subs(p)) < Len(Lits(p))) =>
              /\ i[p] = Len(Subs(p))
              /\ Returned(p) =
                    Pairs(Lits(p), Subs(p), Len(Subs(p)))
                       \o Lits(p)[Len(Lits(p))].s

\* Three literals and one substitution: the middle literal is left out.
C10_Witness ==
    /\ pc[1] = "done"
    /\ Lits(1) = ExampleLiterals
    /\ Subs(1) = <<Num(10)>>
    /\ Returned(1) = "10."

---------------------------------------------------------------------------
(* Properties of Set *)

Entries == {setData[k] : k \in DOMAIN setData}

\* Deleting a value the set does not hold changes nothing.
DeleteAbsent ==
    (lastOp'.op = "delete" /\ lastOp'.value \notin Entries) =>
        setData' = setData

SizeIsCount ==
    /\ SetSize = Cardinality(Entries)
    /\ ({Num(1), Str("1")} \subseteq Entries) => SetSize >= 2
    /\ lastOp.op = "clear" => SetSize = 0
    /\ lastOp.op = "add" => lastOp.value \in Entries
    /\ lastOp.op = "delete" => lastOp.value \notin Entries

\* C8: after any adds, deletes and clears, size is the number of distinct
\* values in the set, the number 1 and the string "1" being distinct;
\* deleting a value that is not in the set leaves it as it was, and clear
\* leaves size 0.
C8_SetSize == []SizeIsCount /\ [][DeleteAbsent]_vars

\* add(1), add("1"), delete("1"), delete("test"): 1 is left.
C8_Witness ==
    /\ lastOp = [op |-> "delete", value |-> Str("test")]
    /\ setData = <<Num(1)>>
    /\ SetSize = 1
    /\ SetHas(Num(1))
    /\ ~SetHas(Str("1"))

---------------------------------------------------------------------------
(* Properties of Hello *)

\* C9: render completes without error and returns one h1 whose text is
\* "Hello from " + compiler + " and " + framework + "!", read from the
\* component's own props.
C9_HelloRenders ==
    rendered.kind # "none" =>
        /\ rendered.kind = "element"
        /\ rendered.tag = "h1"
        /\ rendered.text =
              "Hello from " \o props.compiler \o " and " \o props.framework \o "!"

=============================================================================
